---- MODULE Spec2Model ----
(***************************************************************************)
(* Model of the threaded batch pipeline of mappy-rs (src/src/lib.rs):      *)
(* Aligner::enable_threading (worker pool), Aligner::map_batch and         *)
(* Aligner::_map_batch (dispatch loop and collector thread) and            *)
(* AlignmentBatchResultIter (bounded channel, metadata map, __next__).     *)
(*                                                                         *)
(* Queue items carry the number of the batch that produced them in the     *)
(* field b.  The program's items have no such field: b is history, read    *)
(* only by the properties, never by an action's guard or effect.           *)
(***************************************************************************)
EXTENDS Naturals, Sequences, FiniteSets, TLC

\* ---------------------------------------------------------------- bounds
\* records the caller's iterable yields in one batch
MaxLen == 2
\* largest argument of enable_threading
MaxThreads == 2
\* capacity of Aligner.work_queue (50000 in py_new), scaled down
WorkQueueCap == 1
\* capacity of Aligner.results_queue (50000 in py_new), scaled down
ResultsQueueCap == 1
\* capacity of the iterator's channel (bounded(20000)), scaled down
ChannelCap == 1

\* ------------------------------------------------------------- constants
max_attempts == 6
\* `let mut sleep_duration = Duration::from_millis(50)`
InitialSleep == 50

\* ------------------------------------------------------------ data model
\* Sequences are tuples: <<b, id>> for a sequence the aligner maps, <<>> for
\* the empty string, and two values that stand for "no seq key" and "seq is
\* not a str"
EmptySeq == <<>>
NoSeq == <<0>>
NotStr == <<0, 0, 0>>
Dict(s) == [dict |-> TRUE, seq |-> s]
NotDict == [dict |-> FALSE, seq |-> NoSeq]
\* The elements an iterable can yield: a dictionary with a sequence ("ok"), a
\* dictionary with an empty sequence (the aligner fails on it), a dictionary
\* without "seq", a dictionary whose seq is not a string, and something that
\* is no dictionary.  The program never compares sequences, so every "ok"
\* record of a behaviour has a sequence of its own, <<b, id>>: a result or a
\* dictionary can then be told from every other one.
SeqsKinds == {"iterable", "unsupported", "no iter"}
Kinds == {"ok", "empty", "no seq", "seq not str", "not dict"}
Record(kind, b, id) ==
    CASE kind = "ok" -> Dict(<<b, id>>)
      [] kind = "empty" -> Dict(EmptySeq)
      [] kind = "no seq" -> Dict(NoSeq)
      [] kind = "seq not str" -> Dict(NotStr)
      [] OTHER -> NotDict

\* enum WorkQueue<T>
Work(b, id, seq) == [t |-> "Work", b |-> b, id |-> id, v |-> seq]
Done(b) == [t |-> "Done", b |-> b, id |-> 0, v |-> <<>>]
Result(b, id, out) == [t |-> "Result", b |-> b, id |-> id, v |-> out]
Finished(b) == [t |-> "Finished", b |-> b, id |-> 0, v |-> <<>>]
NoItem == [t |-> "None", b |-> 0, id |-> 0, v |-> <<>>]

\* minimap2::Aligner::map as the worker calls it: Err on an empty sequence,
\* otherwise the mappings of that sequence
AlignErr == <<>>
Align(seq) == IF seq = EmptySeq THEN AlignErr ELSE <<seq>>

NoErr == [kind |-> "none", id |-> 0]
Err(kind, id) == [kind |-> kind, id |-> id]

\* lim is the scenario a behaviour runs in: how often the caller calls
\* map_batch and enable_threading, and what it passes.  It never changes.
VARIABLES n_threads, workers, dones, work_queue, results_queue, iters, caller, lim

vars == <<n_threads, workers, dones, work_queue, results_queue, iters, caller, lim>>

\* the mutant of Insert: the entry goes under key 0 whatever the id
InsertUnderZero(data, id, r) == [i \in DOMAIN data \cup {0} |-> IF i = 0 THEN r ELSE data[i]]

\* HashMap::insert and HashMap::remove on AlignmentBatchResultIter.data
Insert(data, id, r) == [i \in DOMAIN data \cup {id} |-> IF i = id THEN r ELSE data[i]]
Remove(data, id) == [i \in DOMAIN data \ {id} |-> data[i]]
EmptyData == [i \in {} |-> NotDict]

\* ArrayQueue::push succeeds iff the queue is not full
HasRoom(q, cap) == Len(q) < cap

\* AlignmentBatchResultIter::new followed by set_n_threads(self.n_threads)
NewIter(back_off) ==
    [back_off |-> back_off, input |-> <<>>, pushed |-> <<>>, attempts |-> 0,
     sleep_duration |-> 0,
     sent |-> 0, state |-> "dispatching", err |-> NoErr, data |-> EmptyData,
     chan |-> <<>>, rx |-> TRUE, _n_threads |-> n_threads,
     _n_finished_threads |-> 0, cpc |-> "none", citem |-> NoItem,
     yielded |-> <<>>, fin |-> FALSE, panicked |-> FALSE]

Idle == [pc |-> "idle", b |-> 0]

\* Aligner::py_new: n_threads: 0, empty queues, no thread
NewAligner ==
    /\ n_threads = 0
    /\ workers = <<>>
    /\ dones = <<>>
    /\ work_queue = <<>>
    /\ results_queue = <<>>
    /\ iters = <<>>
    /\ caller = Idle

\* one aligner, one batch of up to MaxLen records of any kind, up to
\* MaxThreads workers
OneBatch ==
    [batches |-> 1, enables |-> 1, threads |-> 0..MaxThreads, len |-> MaxLen,
     kinds |-> Kinds, seqs |-> SeqsKinds, back_off |-> BOOLEAN]

\* one aligner with one worker, two batches of at most one record
TwoBatches ==
    [batches |-> 2, enables |-> 1, threads |-> {1}, len |-> 1,
     kinds |-> Kinds, seqs |-> SeqsKinds, back_off |-> BOOLEAN]

\* one aligner with two workers, two batches without records: two rounds of
\* Done sentinels through the persistent pool
TwoRounds ==
    [batches |-> 2, enables |-> 1, threads |-> {2}, len |-> 0,
     kinds |-> {"ok"}, seqs |-> {"iterable"}, back_off |-> {FALSE}]

\* one aligner on which enable_threading(1) is called twice, one batch of at
\* most two records the aligner maps
TwoEnables ==
    [batches |-> 1, enables |-> 2, threads |-> {1}, len |-> 2,
     kinds |-> {"ok"}, seqs |-> {"iterable"}, back_off |-> BOOLEAN]

\* one aligner with one worker, two batches of at most two records the
\* aligner maps, submitted with back_off
TwoLongBatches ==
    [batches |-> 2, enables |-> 1, threads |-> {1}, len |-> 2,
     kinds |-> {"ok"}, seqs |-> {"iterable"}, back_off |-> {TRUE}]

Init ==
    /\ NewAligner
    /\ lim \in {OneBatch, TwoBatches, TwoRounds, TwoEnables}

\* ------------------------------------------------------ enable_threading
EnableThreading(n) ==
    /\ caller.pc = "idle"
    /\ Len(dones) < lim.enables
    /\ n_threads' = n
    /\ dones' = Append(dones, [i \in 1..n |-> FALSE])
    /\ workers' = workers \o
          [i \in 1..n |-> [gen |-> Len(dones) + 1, tn |-> i, pc |-> "loop",
                           item |-> NoItem, pops |-> <<>>]]
    /\ UNCHANGED <<work_queue, results_queue, iters, caller, lim>>

\* the mutant of WorkerLoop: wait_as_done is not looked at, a worker that has
\* sent its Done pops on
WorkerLoopNoWait(w) ==
    LET me == workers[w]
        dr == dones[me.gen]
        all_done == \A i \in DOMAIN dr : dr[i]
    IN  /\ me.pc = "loop"
        /\ dones' = IF all_done THEN [dones EXCEPT ![me.gen] = [i \in DOMAIN dr |-> ~dr[i]]]
                    ELSE dones
        /\ IF work_queue = <<>>
           THEN UNCHANGED <<work_queue, workers>>
           ELSE /\ work_queue' = Tail(work_queue)
                /\ workers' = [workers EXCEPT ![w].item = Head(work_queue),
                                   ![w].pc = IF Head(work_queue).t = "Done" THEN "done" ELSE "work",
                                   ![w].pops = IF Head(work_queue).t = "Done"
                                               THEN Append(@, Head(work_queue).b) ELSE @]
        /\ UNCHANGED <<n_threads, results_queue, iters, caller, lim>>

\* One turn of the worker's loop up to and including wq.pop(): the check of
\* the dones vector under its lock, the reset when every flag is set, and the
\* pop.  A worker that has sent its Done and still waits for its peers does
\* nothing (sleep, continue).  The outcome of the check cannot change between
\* the unlock and the pop (only this worker sets its own flag), so the two are
\* one step.  pops records the batches whose Done this worker has popped.
WorkerLoop(w) ==
    LET me == workers[w]
        dr == dones[me.gen]
        done == dr[me.tn]
        all_done == \A i \in DOMAIN dr : dr[i]
        wait_as_done == done /\ ~all_done
    IN  /\ me.pc = "loop"
        /\ ~wait_as_done
        /\ dones' = IF all_done THEN [dones EXCEPT ![me.gen] = [i \in DOMAIN dr |-> ~dr[i]]]
                    ELSE dones
        /\ IF work_queue = <<>>
           THEN UNCHANGED <<work_queue, workers>>
           ELSE /\ work_queue' = Tail(work_queue)
                /\ workers' = [workers EXCEPT ![w].item = Head(work_queue),
                                   ![w].pc = IF Head(work_queue).t = "Done" THEN "done" ELSE "work",
                                   ![w].pops = IF Head(work_queue).t = "Done"
                                               THEN Append(@, Head(work_queue).b) ELSE @]
        /\ UNCHANGED <<n_threads, results_queue, iters, caller, lim>>

\* WorkQueue::Work arm: map the sequence; Ok: rq.push(Result).unwrap(); Err:
\* eprintln and nothing else
WorkerWork(w) ==
    LET me == workers[w]
        out == Align(me.item.v)
    IN  /\ me.pc = "work"
        /\ IF out = AlignErr
           THEN /\ workers' = [workers EXCEPT ![w].pc = "loop", ![w].item = NoItem]
                /\ UNCHANGED results_queue
           ELSE IF HasRoom(results_queue, ResultsQueueCap)
           THEN /\ results_queue' = Append(results_queue, Result(me.item.b, me.item.id, out))
                /\ workers' = [workers EXCEPT ![w].pc = "loop", ![w].item = NoItem]
           ELSE /\ workers' = [workers EXCEPT ![w].pc = "dead", ![w].item = NoItem]
                /\ UNCHANGED results_queue
        /\ UNCHANGED <<n_threads, dones, work_queue, iters, caller, lim>>

\* WorkQueue::Done arm, first half: rq.push(WorkQueue::Done).unwrap()
WorkerDone(w) ==
    LET me == workers[w]
    IN  /\ me.pc = "done"
        /\ IF HasRoom(results_queue, ResultsQueueCap)
           THEN /\ results_queue' = Append(results_queue, Done(me.item.b))
                /\ workers' = [workers EXCEPT ![w].pc = "flag", ![w].item = NoItem]
           ELSE /\ workers' = [workers EXCEPT ![w].pc = "dead", ![w].item = NoItem]
                /\ UNCHANGED results_queue
        /\ UNCHANGED <<n_threads, dones, work_queue, iters, caller, lim>>

\* WorkQueue::Done arm, second half: done_ref.lock().unwrap()[thread_number] = true
WorkerFlag(w) ==
    LET me == workers[w]
    IN  /\ me.pc = "flag"
        /\ dones' = [dones EXCEPT ![me.gen][me.tn] = TRUE]
        /\ workers' = [workers EXCEPT ![w].pc = "loop"]
        /\ UNCHANGED <<n_threads, work_queue, results_queue, iters, caller, lim>>

\* ------------------------------------------------- collector (_map_batch)
\* results_queue.pop() of batch b's collector thread.  Done: count it, and at
\* n_threads turn to sending Finished.  Result: turn to sending it.
CollectorPop(b) ==
    LET it == iters[b]
        worky == Head(results_queue)
        num == it._n_finished_threads + 1
    IN  /\ it.cpc = "poll"
        /\ results_queue # <<>>
        /\ results_queue' = Tail(results_queue)
        /\ iters' = [iters EXCEPT ![b] =
              IF worky.t = "Done"
              THEN IF num = it._n_threads
                   THEN [it EXCEPT !._n_finished_threads = num, !.cpc = "send",
                                   !.citem = Finished(b)]
                   ELSE [it EXCEPT !._n_finished_threads = num]
              ELSE [it EXCEPT !.cpc = "send", !.citem = worky]]
        /\ UNCHANGED <<n_threads, workers, dones, work_queue, caller, lim>>

\* the mutant of CollectorSend: no break after Finished, the loop polls on
CollectorSendNoBreak(b) ==
    LET it == iters[b]
    IN  /\ it.cpc = "send"
        /\ ~it.rx \/ HasRoom(it.chan, ChannelCap)
        /\ iters' = [iters EXCEPT ![b] =
              IF ~it.rx
              THEN [it EXCEPT !.cpc = IF it.citem.t = "Finished" THEN "panic" ELSE "exit",
                              !.citem = NoItem]
              ELSE [it EXCEPT !.chan = Append(it.chan, it.citem),
                              !.cpc = "poll", !.citem = NoItem]]
        /\ UNCHANGED <<n_threads, workers, dones, work_queue, results_queue, caller, lim>>

\* results_tx.send(..) of batch b's collector thread: Err once the receiver is
\* gone, otherwise blocks while the channel is full.  A failed send of a
\* Result breaks the loop; a failed send of Finished is unwrapped (panic).
\* After Finished the loop breaks.
CollectorSend(b) ==
    LET it == iters[b]
    IN  /\ it.cpc = "send"
        /\ ~it.rx \/ HasRoom(it.chan, ChannelCap)
        /\ iters' = [iters EXCEPT ![b] =
              IF ~it.rx
              THEN [it EXCEPT !.cpc = IF it.citem.t = "Finished" THEN "panic" ELSE "exit",
                              !.citem = NoItem]
              ELSE [it EXCEPT !.chan = Append(it.chan, it.citem),
                              !.cpc = IF it.citem.t = "Finished" THEN "exit" ELSE "poll",
                              !.citem = NoItem]]
        /\ UNCHANGED <<n_threads, workers, dones, work_queue, results_queue, caller, lim>>

\* ------------------------------------------------ map_batch / _map_batch
\* map_batch returns Err: `res` goes out of scope, which drops the receiver,
\* the messages in the channel and the metadata map
Raised(it, kind, id) ==
    [it EXCEPT !.state = "raised", !.err = Err(kind, id), !.rx = FALSE,
               !.chan = <<>>, !.data = EmptyData]

\* the mutant of NotEnabled: the check is missing
NotEnabledNever == FALSE

\* `if self.n_threads == 0_usize`
NotEnabled == n_threads = 0

\* map_batch up to the dispatch loop: the n_threads check, the type check,
\* the spawn of the collector thread, seqs.iter()
MapBatch(back_off, seqs) ==
    LET b == Len(iters) + 1
        res == NewIter(back_off)
    IN  /\ caller.pc = "idle"
        /\ Len(iters) < lim.batches
        /\ IF NotEnabled
           THEN /\ iters' = Append(iters, Raised(res, "ConfigurationError", 0))
                /\ UNCHANGED caller
           ELSE IF seqs = "unsupported"
           THEN /\ iters' = Append(iters, Raised(res, "UnsupportedType", 0))
                /\ UNCHANGED caller
           ELSE IF seqs = "no iter"
           THEN /\ iters' = Append(iters, Raised([res EXCEPT !.cpc = "poll"], "NotIterable", 0))
                /\ UNCHANGED caller
           ELSE /\ iters' = Append(iters, [res EXCEPT !.cpc = "poll"])
                /\ caller' = [pc |-> "for", b |-> b]
        /\ UNCHANGED <<n_threads, workers, dones, work_queue, results_queue, lim>>

\* the mutant of BackOff: the flag is ignored, every failed push is retried
BackOffAlways(it) == TRUE

\* `if back_off` on a failed push
BackOff(it) == it.back_off

\* the mutant of IdNum: the count starts at 1
IdNumFromOne(it) == Len(it.input) + 1

\* iter.enumerate(): the id_num of the record now fetched is the number of
\* records fetched before it
IdNum(it) == Len(it.input)

\* One turn of `for (id_num, py_dict) in iter.enumerate()`: extract the
\* dictionary, insert it into res.data, get "seq", push Work.  A full queue
\* starts the retry loop (back_off) or returns the error (no back_off).
DispatchRecord(kind) ==
    LET b == caller.b
        it == iters[b]
        id_num == IdNum(it)
        r == Record(kind, b, Len(it.input))
        in == [it EXCEPT !.input = Append(it.input, r)]
        ins == [in EXCEPT !.data = Insert(it.data, id_num, r)]
    IN  /\ caller.pc = "for"
        /\ Len(it.input) < lim.len
        /\ IF ~r.dict
           THEN /\ iters' = [iters EXCEPT ![b] = Raised(in, "MalformedRecord", id_num)]
                /\ caller' = Idle
                /\ UNCHANGED work_queue
           ELSE IF r.seq = NotStr
           THEN /\ iters' = [iters EXCEPT ![b] = Raised(ins, "SeqNotString", id_num)]
                /\ caller' = Idle
                /\ UNCHANGED work_queue
           ELSE IF r.seq = NoSeq
           THEN /\ iters' = [iters EXCEPT ![b] = Raised(ins, "MissingField", id_num)]
                /\ caller' = Idle
                /\ UNCHANGED work_queue
           ELSE IF HasRoom(work_queue, WorkQueueCap)
           THEN /\ work_queue' = Append(work_queue, Work(b, id_num, r.seq))
                /\ iters' = [iters EXCEPT ![b] = [ins EXCEPT !.pushed = Append(it.pushed, id_num)]]
                /\ UNCHANGED caller
           ELSE IF BackOff(it)
           THEN /\ iters' = [iters EXCEPT ![b] =
                                  [ins EXCEPT !.attempts = 0, !.sleep_duration = InitialSleep]]
                /\ caller' = [caller EXCEPT !.pc = "retry"]
                /\ UNCHANGED work_queue
           ELSE /\ iters' = [iters EXCEPT ![b] = Raised(ins, "QueueFull", id_num)]
                /\ caller' = Idle
                /\ UNCHANGED work_queue
        /\ UNCHANGED <<n_threads, workers, dones, results_queue, lim>>

\* the mutant of DispatchRetry: no break after a successful push
DispatchRetryNoBreak ==
    LET b == caller.b
        it == iters[b]
        id_num == Len(it.input) - 1
        e == Work(b, id_num, it.input[id_num + 1].seq)
    IN  /\ caller.pc = "retry"
        /\ IF HasRoom(work_queue, WorkQueueCap)
           THEN /\ work_queue' = Append(work_queue, e)
                /\ iters' = [iters EXCEPT ![b].pushed = Append(it.pushed, id_num)]
                /\ UNCHANGED caller
           ELSE IF it.attempts + 1 < max_attempts
           THEN /\ iters' = [iters EXCEPT ![b].attempts = it.attempts + 1,
                                          ![b].sleep_duration = it.sleep_duration * 2]
                /\ UNCHANGED <<caller, work_queue>>
           ELSE /\ iters' = [iters EXCEPT ![b].attempts = 0, ![b].sleep_duration = 0]
                /\ caller' = [caller EXCEPT !.pc = "for"]
                /\ UNCHANGED work_queue
        /\ UNCHANGED <<n_threads, workers, dones, results_queue, lim>>

\* One turn of `while attempts < max_attempts`: push again; Ok breaks, Err
\* counts the attempt, sleeps sleep_duration and doubles it.  After the loop
\* the for loop goes on with the next record, whether or not the item was
\* pushed (attempts and sleep_duration are locals of the Err arm: they are
\* gone then).
DispatchRetry ==
    LET b == caller.b
        it == iters[b]
        id_num == Len(it.input) - 1
        e == Work(b, id_num, it.input[id_num + 1].seq)
    IN  /\ caller.pc = "retry"
        /\ IF HasRoom(work_queue, WorkQueueCap)
           THEN /\ work_queue' = Append(work_queue, e)
                /\ iters' = [iters EXCEPT ![b].pushed = Append(it.pushed, id_num),
                                          ![b].attempts = 0, ![b].sleep_duration = 0]
                /\ caller' = [caller EXCEPT !.pc = "for"]
           ELSE IF it.attempts + 1 < max_attempts
           THEN /\ iters' = [iters EXCEPT ![b].attempts = it.attempts + 1,
                                          ![b].sleep_duration = it.sleep_duration * 2]
                /\ UNCHANGED <<caller, work_queue>>
           ELSE /\ iters' = [iters EXCEPT ![b].attempts = 0, ![b].sleep_duration = 0]
                /\ caller' = [caller EXCEPT !.pc = "for"]
                /\ UNCHANGED work_queue
        /\ UNCHANGED <<n_threads, workers, dones, results_queue, lim>>

\* The iterable is exhausted: the for loop ends, `for _ in 0..self.n_threads`
\* begins (with no turn at all when n_threads is 0: map_batch returns Ok)
DispatchEnd ==
    /\ caller.pc = "for"
    /\ IF n_threads = 0
       THEN /\ iters' = [iters EXCEPT ![caller.b].state = "returned"]
            /\ caller' = Idle
       ELSE /\ caller' = [caller EXCEPT !.pc = "dones"]
            /\ UNCHANGED iters
    /\ UNCHANGED <<n_threads, workers, dones, work_queue, results_queue, lim>>

\* One turn of `for _ in 0..self.n_threads`: work_queue.push(Done).unwrap();
\* after the last one map_batch returns Ok(res)
DispatchDone ==
    LET b == caller.b
        it == iters[b]
    IN  /\ caller.pc = "dones"
        /\ IF ~HasRoom(work_queue, WorkQueueCap)
           THEN /\ iters' = [iters EXCEPT ![b] = Raised(it, "Panic", 0)]
                /\ caller' = Idle
                /\ UNCHANGED work_queue
           ELSE /\ work_queue' = Append(work_queue, Done(b))
                /\ IF it.sent + 1 = n_threads
                   THEN /\ iters' = [iters EXCEPT ![b].sent = it.sent + 1, ![b].state = "returned"]
                        /\ caller' = Idle
                   ELSE /\ iters' = [iters EXCEPT ![b].sent = it.sent + 1]
                        /\ UNCHANGED caller
        /\ UNCHANGED <<n_threads, workers, dones, results_queue, lim>>

\* ------------------------------------------ AlignmentBatchResultIter
\* the mutant of Received: HashMap::get in place of HashMap::remove
ReceivedKeepsEntry(it, m) ==
    IF m.t = "Finished"
    THEN [it EXCEPT !.chan = Tail(it.chan), !.fin = TRUE]
    ELSE IF m.id \in DOMAIN it.data
    THEN [it EXCEPT !.chan = Tail(it.chan),
                    !.yielded = Append(it.yielded,
                                   [id |-> m.id, out |-> m.v, meta |-> it.data[m.id], from |-> m.b])]
    ELSE [it EXCEPT !.chan = Tail(it.chan), !.panicked = TRUE]

\* what __next__ does with the received item
Received(it, m) ==
    IF m.t = "Finished"
    THEN [it EXCEPT !.chan = Tail(it.chan), !.fin = TRUE]
    ELSE IF m.id \in DOMAIN it.data
    THEN [it EXCEPT !.chan = Tail(it.chan),
                    !.data = Remove(it.data, m.id),
                    !.yielded = Append(it.yielded,
                                   [id |-> m.id, out |-> m.v, meta |-> it.data[m.id], from |-> m.b])]
    ELSE [it EXCEPT !.chan = Tail(it.chan), !.panicked = TRUE]

\* __next__: self.rx.recv() blocks while the channel is empty (the iterator
\* owns a Sender itself, so recv never reports a closed channel)
Next_(b) ==
    LET it == iters[b]
    IN  /\ it.state = "returned"
        /\ \/ caller.pc = "idle"
           \/ caller.pc = "recv" /\ caller.b = b /\ it.chan # <<>>
        /\ IF it.chan = <<>>
           THEN /\ caller' = [pc |-> "recv", b |-> b]
                /\ UNCHANGED iters
           ELSE /\ iters' = [iters EXCEPT ![b] = Received(it, Head(it.chan))]
                /\ caller' = Idle
        /\ UNCHANGED <<n_threads, workers, dones, work_queue, results_queue, lim>>

\* the caller drops its last reference to the iterator
DropIter(b) ==
    LET it == iters[b]
    IN  /\ caller.pc = "idle"
        /\ it.state = "returned"
        /\ iters' = [iters EXCEPT ![b] =
               [it EXCEPT !.state = "dropped", !.rx = FALSE, !.chan = <<>>, !.data = EmptyData]]
        /\ UNCHANGED <<n_threads, workers, dones, work_queue, results_queue, caller, lim>>

\* ---------------------------------------------------------- specification
Next ==
    \/ \E n \in lim.threads : EnableThreading(n)
    \/ \E w \in DOMAIN workers : WorkerLoop(w)
    \/ \E w \in DOMAIN workers : WorkerWork(w)
    \/ \E w \in DOMAIN workers : WorkerDone(w)
    \/ \E w \in DOMAIN workers : WorkerFlag(w)
    \/ \E b \in DOMAIN iters : CollectorPop(b)
    \/ \E b \in DOMAIN iters : CollectorSend(b)
    \/ \E back_off \in lim.back_off, seqs \in lim.seqs : MapBatch(back_off, seqs)
    \/ \E kind \in lim.kinds : DispatchRecord(kind)
    \/ DispatchRetry
    \/ DispatchEnd
    \/ DispatchDone
    \/ \E b \in DOMAIN iters : Next_(b)
    \/ \E b \in DOMAIN iters : DropIter(b)

Spec == Init /\ [][Next]_vars

\* the same program in one scenario only
InitOneBatch == NewAligner /\ lim = OneBatch
SpecOneBatch == InitOneBatch /\ [][Next]_vars
InitTwoBatches == NewAligner /\ lim = TwoBatches
SpecTwoBatches == InitTwoBatches /\ [][Next]_vars
InitTwoEnables == NewAligner /\ lim = TwoEnables
SpecTwoEnables == InitTwoEnables /\ [][Next]_vars
InitTwoLongBatches == NewAligner /\ lim = TwoLongBatches
SpecTwoLongBatches == InitTwoLongBatches /\ [][Next]_vars

\* ------------------------------------------------------------ vocabulary
Ids(b) == 0..(Len(iters[b].input) - 1)
YieldedIds(b) == {iters[b].yielded[k].id : k \in DOMAIN iters[b].yielded}
PushedIds(b) == {iters[b].pushed[k] : k \in DOMAIN iters[b].pushed}
IsOk(b, id) == iters[b].input[id + 1] = Dict(<<b, id>>)
\* the Work item of (b, id) is in the work queue or in a worker's hands
WorkAlive(b, id) ==
    \/ \E i \in DOMAIN work_queue :
          work_queue[i].t = "Work" /\ work_queue[i].b = b /\ work_queue[i].id = id
    \/ \E w \in DOMAIN workers :
          workers[w].pc = "work" /\ workers[w].item.b = b /\ workers[w].item.id = id
\* the Result of (b, id) is in the results queue, or in the hands of b's own
\* collector, or in b's own channel
ResultAlive(b, id) ==
    \/ \E i \in DOMAIN results_queue :
          results_queue[i].t = "Result" /\ results_queue[i].b = b /\ results_queue[i].id = id
    \/ iters[b].cpc = "send" /\ iters[b].citem.t = "Result"
          /\ iters[b].citem.b = b /\ iters[b].citem.id = id
    \/ \E i \in DOMAIN iters[b].chan :
          iters[b].chan[i].t = "Result" /\ iters[b].chan[i].b = b /\ iters[b].chan[i].id = id
\* the caller holds b's iterator and the result of (b, id) is on its way to it
Deliverable(b, id) ==
    iters[b].state = "returned" /\ (WorkAlive(b, id) \/ ResultAlive(b, id))
\* the caller has been given the result of (b, id)
Delivered(b, id) ==
    \E k \in DOMAIN iters[b].yielded :
        iters[b].yielded[k].id = id /\ iters[b].yielded[k].from = b
\* Done tokens not yet counted by any collector
DonesLeft ==
    Cardinality({i \in DOMAIN work_queue : work_queue[i].t = "Done"})
    + Cardinality({w \in DOMAIN workers : workers[w].pc = "done"})
    + Cardinality({i \in DOMAIN results_queue : results_queue[i].t = "Done"})
\* b's iterator has received Finished, or Finished is on its way, or b's
\* collector is running and enough Done tokens are left for it to count to
\* _n_threads
FinishedReachable(b) ==
    LET it == iters[b]
    IN  \/ it.fin
        \/ \E i \in DOMAIN it.chan : it.chan[i].t = "Finished"
        \/ it.cpc = "send" /\ it.citem.t = "Finished"
        \/ it.cpc \in {"poll", "send"} /\ it._n_finished_threads + DonesLeft >= it._n_threads
\* map_batch returned the iterator of b, every record of b is a dictionary
\* with a sequence the aligner maps, and every push of b succeeded
AllSucceeded(b) ==
    /\ iters[b].state = "returned"
    /\ iters[b]._n_threads >= 1
    /\ \A id \in Ids(b) : IsOk(b, id)
    /\ PushedIds(b) = Ids(b)

\* ------------------------------------------------------------------ C1
\* C1: every pair the iterator of a batch of M records (N >= 1 workers) has
\* yielded carries an id in [0, M), no id is yielded twice, and the metadata
\* yielded with id i is the i-th input record's.
C1_Correlation ==
    \A b \in DOMAIN iters :
        LET it == iters[b]
        IN  \A k \in DOMAIN it.yielded :
                /\ it._n_threads >= 1
                /\ it.yielded[k].id \in 0..(Len(it.input) - 1)
                /\ it.yielded[k].meta = it.input[it.yielded[k].id + 1]
                /\ \A j \in DOMAIN it.yielded : j # k => it.yielded[j].id # it.yielded[k].id

\* C1's case: a batch of two records whose results came out of order, both
\* yielded, then Finished
C1_Witness ==
    \E b \in DOMAIN iters :
        /\ Len(iters[b].yielded) = 2
        /\ iters[b].yielded[1].id = 1
        /\ iters[b].yielded[2].id = 0
        /\ iters[b].fin

\* ------------------------------------------------------------------ C2
\* C2: for a batch in which every alignment and every push succeeds, no
\* record is lost (each id is yielded or still on its way to the caller),
\* Finished can still arrive, and when it has arrived every id 0..M-1 has
\* been yielded.
C2_AllThenFinished ==
    \A b \in DOMAIN iters :
        AllSucceeded(b) =>
            /\ \A id \in Ids(b) : Delivered(b, id) \/ Deliverable(b, id)
            /\ FinishedReachable(b)
            /\ iters[b].fin => \A id \in Ids(b) : Delivered(b, id)

\* ------------------------------------------------------------------ C3
\* C3: a submission either raises, or its iterator can still receive
\* Finished: the caller is never left to block on a pipeline that cannot
\* finish.
C3_RaisesOrFinishes ==
    \A b \in DOMAIN iters :
        iters[b].state = "returned" => FinishedReachable(b)

\* ------------------------------------------------------------------ C4
\* C4: when the iterator of a batch whose submission returned without error
\* receives Finished, the metadata map of that batch is empty.
C4_EmptyAtFinished ==
    \A b \in DOMAIN iters :
        (iters[b].state = "returned" /\ iters[b].fin) => DOMAIN iters[b].data = {}

\* ------------------------------------------------------------------ C5
\* C5: while the metadata map of a batch exists, it holds an entry for a
\* dispatched id exactly if no result with that id has been yielded, and
\* every yield has removed exactly one entry.
C5_EntryIffNotYielded ==
    \A b \in DOMAIN iters :
        LET it == iters[b]
        IN  it.state \in {"dispatching", "returned"} =>
                /\ \A id \in Ids(b) : (id \in DOMAIN it.data) <=> (id \notin YieldedIds(b))
                /\ Cardinality(DOMAIN it.data) + Len(it.yielded) = Len(it.input)

\* C5's case: of two dispatched records one has been yielded and its entry is
\* gone, the other's entry is still there
C5_Witness ==
    \E b \in DOMAIN iters :
        /\ iters[b].state = "returned"
        /\ Len(iters[b].input) = 2
        /\ YieldedIds(b) = {1}
        /\ DOMAIN iters[b].data = {0}

\* ------------------------------------------------------------------ C6
\* Done tokens of batch b not yet counted by any collector
DonesLeftOf(b) ==
    Cardinality({i \in DOMAIN work_queue : work_queue[i] = Done(b)})
    + Cardinality({w \in DOMAIN workers : workers[w].pc = "done" /\ workers[w].item.b = b})
    + Cardinality({i \in DOMAIN results_queue : results_queue[i] = Done(b)})

\* C6: each batch has queues, channel and counter of its own: the collector
\* of a batch holds, forwards and counts only items of that batch, and the
\* iterator of a batch yields only results of that batch.
C6_OwnItemsOnly ==
    \A b \in DOMAIN iters :
        LET it == iters[b]
        IN  /\ it.citem.t = "Result" => it.citem.b = b
            /\ \A i \in DOMAIN it.chan : it.chan[i].b = b
            /\ \A k \in DOMAIN it.yielded : it.yielded[k].from = b
            /\ it._n_finished_threads + DonesLeftOf(b) <= it.sent

\* ------------------------------------------------------------------ C7
DispatchErrors == {"MalformedRecord", "MissingField", "QueueFull"}

\* C7: after a batch aborted with a dispatch error, a later batch in which
\* everything succeeds (and no worker has died) loses no result, can still
\* receive Finished, and has every result when Finished arrives.
C7_LaterBatchUnharmed ==
    \A b1 \in DOMAIN iters, b2 \in DOMAIN iters :
        ( /\ b1 < b2
          /\ iters[b1].err.kind \in DispatchErrors
          /\ AllSucceeded(b2)
          /\ \A w \in DOMAIN workers : workers[w].pc # "dead" ) =>
            /\ \A id \in Ids(b2) : Delivered(b2, id) \/ Deliverable(b2, id)
            /\ FinishedReachable(b2)
            /\ iters[b2].fin => \A id \in Ids(b2) : Delivered(b2, id)

\* ------------------------------------------------------------------ C8
\* an item of batch b is in a queue or in a worker's hands
ItemOf(b) ==
    \/ \E i \in DOMAIN work_queue : work_queue[i].b = b
    \/ \E i \in DOMAIN results_queue : results_queue[i].b = b
    \/ \E w \in DOMAIN workers : workers[w].item.b = b

\* C8: a batch submitted while n_threads is 0 fails with the configuration
\* error and nothing else has happened: no record fetched, no entry inserted,
\* no Work and no Done pushed, no collector started.
C8_NotEnabledNoEffect ==
    \A b \in DOMAIN iters :
        LET it == iters[b]
        IN  it._n_threads = 0 =>
                /\ it.state = "raised"
                /\ it.err.kind = "ConfigurationError"
                /\ it.cpc = "none"
                /\ it.input = <<>> /\ it.pushed = <<>> /\ it.sent = 0
                /\ DOMAIN it.data = {}
                /\ ~ItemOf(b)

\* C8's case: map_batch has been called on an aligner with n_threads = 0
C8_Witness ==
    \E b \in DOMAIN iters :
        iters[b]._n_threads = 0 /\ iters[b].err.kind = "ConfigurationError"

\* ------------------------------------------------------------------ C9
\* C9: when the record at position k has no seq, dispatch aborts with
\* MissingField, nothing at a position >= k is pushed, and the result of every
\* record before k is delivered to the caller or still on its way to it.
C9_PartialDelivered ==
    \A b \in DOMAIN iters :
        iters[b].err.kind = "MissingField" =>
            /\ \A id \in PushedIds(b) : id < iters[b].err.id
            /\ \A id \in PushedIds(b) : IsOk(b, id) => Delivered(b, id) \/ Deliverable(b, id)

\* ----------------------------------------------------------------- C10
\* the record (b, id) is one the dispatcher pushes: a dictionary whose seq is
\* a string
Pushable(b, id) ==
    iters[b].input[id + 1].dict /\ iters[b].input[id + 1].seq \notin {NoSeq, NotStr}

\* C10: without back_off no push is retried (the dispatcher never enters the
\* retry loop); a record whose push found the
\* queue full is the one QueueFull names, it is the last record fetched, and
\* every pushable record before it has been pushed.
C10_FailFast ==
    \A b \in DOMAIN iters :
        LET it == iters[b]
        IN  ~it.back_off =>
                /\ it.attempts = 0
                /\ caller.b = b => caller.pc # "retry"
                /\ \A id \in Ids(b) : Pushable(b, id) =>
                       id \in PushedIds(b) \/ it.err = Err("QueueFull", id)
                /\ it.err.kind = "QueueFull" =>
                       /\ it.state = "raised"
                       /\ it.err.id = Len(it.input) - 1
                       /\ it.pushed = [k \in 1..it.err.id |-> k - 1]

\* C10's case: without back_off the push of the second record found the
\* queue full
C10_Witness ==
    \E b \in DOMAIN iters :
        ~iters[b].back_off /\ iters[b].err = Err("QueueFull", 1)

\* ----------------------------------------------------------------- C11
\* C11: with back_off, a record whose push and retries all failed makes the
\* call raise QueueFull: every pushable record fetched so far has been
\* pushed, or is the one QueueFull names, or is the one being retried.
C11_ExhaustedRaises ==
    \A b \in DOMAIN iters :
        LET it == iters[b]
        IN  it.back_off =>
                \A id \in Ids(b) : Pushable(b, id) =>
                    \/ id \in PushedIds(b)
                    \/ it.err = Err("QueueFull", id)
                    \/ caller.b = b /\ caller.pc = "retry" /\ id = Len(it.input) - 1

\* ----------------------------------------------------------------- C12
\* C12: when the dispatcher has left, after the last record or after a
\* dispatch error, it has pushed _n_threads Done sentinels.
C12_SentinelsOnEveryExit ==
    \A b \in DOMAIN iters :
        (iters[b].state = "returned" \/ iters[b].err.kind \in DispatchErrors) =>
            iters[b].sent = iters[b]._n_threads

\* ----------------------------------------------------------------- C13
\* how many Done sentinels of batch b worker w has popped
DonesPopped(w, b) ==
    Cardinality({k \in DOMAIN workers[w].pops : workers[w].pops[k] = b})

\* C13: of a batch that has pushed its _n_threads Done sentinels no worker
\* pops two, and no worker ends (its thread gone) without having popped one.
C13_OneDoneEach ==
    \A b \in DOMAIN iters : \A w \in DOMAIN workers :
        (iters[b]._n_threads >= 1 /\ iters[b].sent = iters[b]._n_threads) =>
            /\ DonesPopped(w, b) <= 1
            /\ workers[w].pc = "dead" => DonesPopped(w, b) = 1

\* ----------------------------------------------------------------- C14
\* C14: a collector whose send of a Result failed on the closed channel goes
\* on popping: it has left its loop only when it has counted _n_threads Done
\* tokens.
C14_DrainsAfterAbandon ==
    \A b \in DOMAIN iters :
        (iters[b].state = "dropped" /\ iters[b].cpc = "exit") =>
            iters[b]._n_finished_threads = iters[b]._n_threads

\* ----------------------------------------------------------------- C15
\* C15: no collector panics because the caller dropped the iterator before
\* Finished was received.
C15_AbandonIsGraceful ==
    \A b \in DOMAIN iters :
        (~iters[b].rx /\ ~iters[b].fin) => iters[b].cpc # "panic"

\* ----------------------------------------------------------------- C16
\* how many Finished markers batch b's collector has put on the channel of a
\* receiver that is still there
FinishedSent(b) ==
    Cardinality({k \in DOMAIN iters[b].chan : iters[b].chan[k].t = "Finished"})
        + (IF iters[b].fin THEN 1 ELSE 0)

SendingFinished(b) == iters[b].cpc = "send" /\ iters[b].citem.t = "Finished"

\* batch b's collector pops a Done token in this step
CollectorPopsDone(b) ==
    /\ iters[b].cpc = "poll"
    /\ results_queue # <<>>
    /\ Head(results_queue).t = "Done"
    /\ results_queue' = Tail(results_queue)
    /\ iters'[b] # iters[b]

C16_State ==
    \A b \in DOMAIN iters :
        LET it == iters[b]
            N == it._n_threads
            num == it._n_finished_threads
        IN  /\ num <= N
            /\ (SendingFinished(b) \/ FinishedSent(b) > 0) => num = N
            /\ (num = N /\ it.cpc # "none") =>
                   SendingFinished(b) \/ it.cpc \in {"exit", "panic"}
            /\ FinishedSent(b) <= 1
            /\ SendingFinished(b) => FinishedSent(b) = 0
            /\ (it.rx /\ it.cpc = "exit") => FinishedSent(b) = 1
            /\ FinishedSent(b) = 1 =>
                   /\ it.cpc = "exit" /\ it.citem = NoItem
                   /\ it.fin => it.chan = <<>>
                   /\ ~it.fin => it.chan[Len(it.chan)].t = "Finished"

\* C16: the collector's counter grows by one with every Done token it pops
\* and not otherwise; Finished is sent when the counter equals _n_threads and
\* not before, once, as the last message, and the collector then ends.
C16_FinishedOnceAtN ==
    /\ []C16_State
    /\ [][\A b \in DOMAIN iters :
             iters'[b]._n_finished_threads =
                 iters[b]._n_finished_threads + (IF CollectorPopsDone(b) THEN 1 ELSE 0)]_vars

C16_Witness ==
    \E b \in DOMAIN iters :
        /\ iters[b]._n_threads = 2 /\ iters[b]._n_finished_threads = 2
        /\ iters[b].fin /\ iters[b].yielded # <<>>

\* ----------------------------------------------------------------- C17
\* the Result of (b, id) is in the results queue
ResultQueued(b, id) ==
    \E i \in DOMAIN results_queue :
        results_queue[i].t = "Result" /\ results_queue[i].b = b /\ results_queue[i].id = id

\* C17: when the collector of a batch sends Finished, and from then on, no
\* Work item of the batch is in the work queue or in a worker's hands and no
\* Result of the batch is in the results queue.
C17_FinishedWhenDrained ==
    \A b \in DOMAIN iters :
        (SendingFinished(b) \/ FinishedSent(b) > 0) =>
            \A id \in Ids(b) : ~WorkAlive(b, id) /\ ~ResultQueued(b, id)

\* ----------------------------------------------------------------- C18
\* worker w's flag in the dones vector of its pool, and whether every flag of
\* that vector is set
Flag(w) == dones[workers[w].gen][workers[w].tn]
AllFlags(w) == \A i \in DOMAIN dones[workers[w].gen] : dones[workers[w].gen][i]

\* worker w takes an item from the work queue in this step
WorkerPops(w) == workers[w].pc = "loop" /\ workers'[w].pc \in {"work", "done"}

C18_State ==
    \A w \in DOMAIN workers :
        /\ (Flag(w) \/ workers[w].pc = "flag") => workers[w].item = NoItem
        /\ Flag(w) => workers[w].pc = "loop"
        /\ \A v \in DOMAIN workers :
               workers[v].gen = workers[w].gen =>
                   Len(workers[w].pops) <= Len(workers[v].pops) + 1
        /\ (workers[w].pc = "loop" /\ (~Flag(w) \/ AllFlags(w))) => ENABLED WorkerLoop(w)

\* C18: a worker whose Done flag is set (or that has pushed Done and is about
\* to set it) holds nothing and takes nothing from the work queue until every
\* flag of its pool is set, so no worker is a round of sentinels ahead of a
\* peer; when every flag is set the first worker to look resets them all and
\* every worker of the pool can take its next turn.
C18_Barrier ==
    /\ []C18_State
    /\ [][\A w \in DOMAIN workers :
             /\ WorkerPops(w) => (~Flag(w) \/ AllFlags(w))
             /\ (AllFlags(w) /\ workers'[w] # workers[w]) =>
                    \A i \in DOMAIN dones[workers[w].gen] : ~dones'[workers[w].gen][i]]_vars

C18_Witness ==
    \E w, v \in DOMAIN workers :
        /\ w # v /\ workers[w].gen = workers[v].gen
        /\ Flag(w) /\ Len(workers[w].pops) = 2
        /\ workers[v].pc = "done" /\ Len(workers[v].pops) = 2

\* ----------------------------------------------------------------- C19
\* record id of batch b is a dictionary whose sequence the aligner rejects
FailsToAlign(b, id) == iters[b].input[id + 1] = Dict(EmptySeq)

\* a worker has taken the Work item of (b, id) and is through with it
Processed(b, id) == id \in PushedIds(b) /\ ~WorkAlive(b, id)

\* C19: in a batch that map_batch returned and all of whose records were
\* pushed, once a worker has failed to align a record there is no Result for
\* that id, every record the aligner maps is delivered or still on its way,
\* and Finished can still arrive.
C19_FailureIsSkipped ==
    \A b \in DOMAIN iters :
        ( /\ iters[b].state = "returned"
          /\ iters[b]._n_threads >= 1
          /\ PushedIds(b) = Ids(b)
          /\ \A id \in Ids(b) : IsOk(b, id) \/ FailsToAlign(b, id)
          /\ \E id \in Ids(b) : FailsToAlign(b, id) /\ Processed(b, id) ) =>
            /\ \A id \in Ids(b) : FailsToAlign(b, id) =>
                   ~ResultAlive(b, id) /\ ~Delivered(b, id)
            /\ \A id \in Ids(b) : IsOk(b, id) => Delivered(b, id) \/ Deliverable(b, id)
            /\ FinishedReachable(b)

\* ----------------------------------------------------------------- C20
\* C20: while the caller holds the iterator of a batch, every id whose Work
\* item has been pushed has its entry in data or has been yielded, and
\* __next__ has never received a Result whose id had no entry in data.
C20_EntryBeforeResult ==
    \A b \in DOMAIN iters :
        LET it == iters[b]
        IN  it.state \in {"dispatching", "returned"} =>
                /\ \A id \in PushedIds(b) : id \in DOMAIN it.data \/ id \in YieldedIds(b)
                /\ ~it.panicked

C22_EmptyBatchFinishes ==
    \A b \in DOMAIN iters :
        LET it == iters[b]
        IN  ( /\ it.state = "returned" /\ it.input = <<>> /\ it._n_threads >= 1
              /\ caller.pc \in {"idle", "recv"} ) =>
                /\ it.yielded = <<>> /\ ~it.panicked
                /\ (SendingFinished(b) \/ FinishedSent(b) > 0) =>
                       it._n_finished_threads = it._n_threads
                /\ FinishedReachable(b)

\* ----------------------------------------------------------------- C23
\* ids of batch b dispatched and not yet delivered
InFlight(b) == PushedIds(b) \ YieldedIds(b)

\* C23: the items of a batch dispatched and not yet delivered are never more
\* than the three capacities and the workers can hold, and this is achieved
\* by blocking alone: every pushed record the aligner maps is delivered or
\* still on its way while the batch is alive, and no worker thread has died.
C23_ThrottledByBlocking ==
    /\ \A w \in DOMAIN workers : workers[w].pc # "dead"
    /\ \A b \in DOMAIN iters :
           /\ Cardinality(InFlight(b)) <=
                  WorkQueueCap + ResultsQueueCap + ChannelCap + iters[b]._n_threads
           /\ iters[b].state = "returned" =>
                  \A id \in PushedIds(b) : IsOk(b, id) => Delivered(b, id) \/ Deliverable(b, id)

\* ----------------------------------------------------------------- C24
\* C24: the caller can pull from the iterator of a batch that is still being
\* dispatched: a result waiting in the channel of such a batch can be taken.
C24_PullWhileDispatching ==
    \A b \in DOMAIN iters :
        (iters[b].state = "dispatching" /\ iters[b].chan # <<>>) => ENABLED Next_(b)

\* ----------------------------------------------------------------- C25
\* how many Work items of (b, id) are in the work queue or in a worker's hands
WorkCopies(b, id) ==
    Cardinality({i \in DOMAIN work_queue : work_queue[i].t = "Work"
                     /\ work_queue[i].b = b /\ work_queue[i].id = id})
    + Cardinality({w \in DOMAIN workers : workers[w].item.t = "Work"
                     /\ workers[w].item.b = b /\ workers[w].item.id = id})

\* the dispatcher is in the retry loop of batch b
Retrying(b) == caller.pc = "retry" /\ caller.b = b

C25_State ==
    \A b \in DOMAIN iters :
        LET it == iters[b]
        IN  /\ it.attempts < max_attempts
            /\ Retrying(b) =>
                   it.back_off /\ it.sleep_duration = InitialSleep * 2 ^ it.attempts
            /\ ~Retrying(b) => it.attempts = 0 /\ it.sleep_duration = 0
            /\ \A j, k \in DOMAIN it.pushed : j # k => it.pushed[j] # it.pushed[k]
            /\ \A id \in Ids(b) : WorkCopies(b, id) <= 1

\* one turn of the retry loop of batch b: a successful push ends the loop; a
\* failed one is followed by the sleep of sleep_duration, which is doubled,
\* and the sixth failed one ends the loop
C25_Step(b) ==
    Retrying(b) =>
        IF iters'[b].pushed # iters[b].pushed
        THEN /\ caller'.pc = "for"
             /\ iters'[b].pushed = Append(iters[b].pushed, Len(iters[b].input) - 1)
             /\ work_queue' = Append(work_queue, Work(b, Len(iters[b].input) - 1,
                                                      iters[b].input[Len(iters[b].input)].seq))
        ELSE IF iters'[b].attempts # iters[b].attempts \/ caller' # caller
        THEN /\ work_queue' = work_queue
             /\ IF iters[b].attempts + 1 < max_attempts
                THEN /\ Retrying(b)'
                     /\ iters'[b].attempts = iters[b].attempts + 1
                     /\ iters'[b].sleep_duration = 2 * iters[b].sleep_duration
                ELSE caller'.pc = "for"
        ELSE TRUE

\* C25: with back_off a failed push is followed by at most max_attempts
\* retries, the sleeps after the failed ones being 50, 100, 200, 400, 800 and
\* 1600 ms; the loop ends with the first successful push, and no id is pushed
\* twice.
C25_RetryAtMostSix ==
    /\ []C25_State
    /\ [][\A b \in DOMAIN iters : C25_Step(b)]_vars

\* the dispatcher is about to make its sixth retry, having slept 50..800 ms
C25_Witness ==
    \E b \in DOMAIN iters :
        /\ Retrying(b)
        /\ iters[b].attempts = 5 /\ iters[b].sleep_duration = 1600
        /\ iters[b].pushed = <<0>>

\* ----------------------------------------------------------------- C26
\* C26: a pull on an iterator that has returned Finished returns: the caller
\* is never blocked in recv on it with the channel empty and no collector
\* left to send on it.
C26_ReturnsAfterFinished ==
    \A b \in DOMAIN iters :
        (iters[b].fin /\ caller = [pc |-> "recv", b |-> b]) =>
            iters[b].chan # <<>> \/ iters[b].cpc \in {"poll", "send"}

\* ----------------------------------------------------------------- C27
\* worker w is at an rq.push: it holds a Done, or a Work item the aligner maps
AtResultsPush(w) ==
    \/ workers[w].pc = "done"
    \/ workers[w].pc = "work" /\ Align(workers[w].item.v) # AlignErr

\* C27: whenever a worker is at rq.push the results queue has room, and no
\* worker thread has died.
C27_ResultsPushSucceeds ==
    \A w \in DOMAIN workers :
        /\ AtResultsPush(w) => HasRoom(results_queue, ResultsQueueCap)
        /\ workers[w].pc # "dead"

\* ----------------------------------------------------------------- C28
\* C28: whenever the dispatcher is at the push of a Done sentinel the work
\* queue has room, and no submission has ended in the panic of that push.
C28_SentinelPushSucceeds ==
    /\ caller.pc = "dones" => HasRoom(work_queue, WorkQueueCap)
    /\ \A b \in DOMAIN iters : iters[b].err.kind # "Panic"

\* ----------------------------------------------------------------- C29
\* C29: with one worker thread and N = 1 the iterator of a batch yields its
\* results in the order of submission: the yielded ids are strictly
\* increasing.
C29_InOrderWithOneWorker ==
    \A b \in DOMAIN iters :
        (iters[b]._n_threads = 1 /\ Len(workers) = 1) =>
            \A j, k \in DOMAIN iters[b].yielded :
                j < k => iters[b].yielded[j].id < iters[b].yielded[k].id

\* ----------------------------------------------------------------- C30
\* C30: the worker threads started on the aligner are as many as n_threads,
\* the number a batch uses for its sentinels and its collector's threshold;
\* and when Finished is sent for a batch no worker holds a Work item of it.
C30_WorkersEqualN ==
    /\ Len(workers) = n_threads
    /\ \A b \in DOMAIN iters :
           (SendingFinished(b) \/ FinishedSent(b) > 0) =>
               \A w \in DOMAIN workers :
                   ~(workers[w].pc = "work" /\ workers[w].item.b = b)

====
